---- MODULE Spec2Model ----
(***************************************************************************)
(* Model of the RFQ processor's hybrid supplier matching.                  *)
(*                                                                         *)
(* The catalog (table supplier_products) is filled by                      *)
(* SupplierDataLoader.bulk_insert_products and read by                     *)
(* HybridSupplierMatcher.match_suppliers, which embeds the item name, runs *)
(* one SQL statement (base_scores -> ranked -> WHERE/ORDER BY/LIMIT) and   *)
(* decodes the fetched rows by position.                                   *)
(*                                                                         *)
(* Reals are fixed point.  A similarity (a REAL / DOUBLE column) is an     *)
(* integer number of 1/Scale; a weight or threshold argument is an         *)
(* integer number of tenths; a hybrid score is therefore an integer number *)
(* of 1/(10*Scale); a returned score, round(x, 4), is an integer number of *)
(* 1/10^4.                                                                 *)
(***************************************************************************)
EXTENDS Integers, Sequences, FiniteSets, TLC

\* ------------------------------------------------------------------ bounds

\* Largest number of rows the model lets supplier_products hold.
MaxProducts == 2

\* ------------------------------------------------------- program constants

\* match_suppliers' default arguments, in tenths for the three reals.
DefaultTopK == 5
DefaultPnBoostWeight == 3
DefaultVectorWeight == 7
DefaultSimilarityThreshold == 6

\* ensure_dummy_suppliers_exist(count = 5)
DummySupplierCount == 5

\* ------------------------------------------------------------ value model

\* Fixed-point unit of the similarity columns.
Scale == 10^6

\* Unit of a hybrid score: a weight in tenths times a similarity.
HybridUnit == 10 * Scale

\* Python None for a text value that the model holds as a sequence of
\* characters (part numbers); SQL NULL once it is a query parameter.
NULL == <<"NULL">>

\* Python None / a missing dict key for a text value held as an atom.
None == "<None>"

\* SQL NULL of a REAL / DOUBLE column (no similarity has this value).
NullReal == -(10^9)

Min(a, b) == IF a <= b THEN a ELSE b

Range(s) == {s[i] : i \in 1..Len(s)}

\* --------------------------------------------------------- pg_trgm model

\* Lower-casing of one character (pg_trgm compares case-insensitively).
Lower(c) ==
    CASE c = "A" -> "a"
      [] c = "B" -> "b"
      [] OTHER -> c

\* Characters that belong to a word; every other character separates words.
IsAlnum(c) == c \in {"a", "b", "A", "B", "1", "2"}

\* The words of a text: maximal runs of alphanumeric characters, lower-cased.
RECURSIVE SplitWords(_, _, _)
SplitWords(s, i, cur) ==
    IF i > Len(s)
    THEN IF cur = <<>> THEN {} ELSE {cur}
    ELSE IF IsAlnum(s[i])
         THEN SplitWords(s, i + 1, Append(cur, Lower(s[i])))
         ELSE (IF cur = <<>> THEN {} ELSE {cur}) \cup SplitWords(s, i + 1, <<>>)

\* The trigrams of one word, padded with two blanks before and one after.
WordTrigrams(w) ==
    LET p == <<" ", " ">> \o w \o <<" ">>
    IN {SubSeq(p, i, i + 2) : i \in 1..(Len(p) - 2)}

\* The set of distinct trigrams of a text.
Trigrams(s) == UNION {WordTrigrams(w) : w \in SplitWords(s, 1, <<>>)}

\* similarity(text, text) of pg_trgm: shared trigrams over all trigrams, a
\* REAL in [0, 1]. The function is STRICT: a NULL argument gives NULL.
similarity(a, b) ==
    IF a = NULL \/ b = NULL THEN NullReal
    ELSE LET ta == Trigrams(a)
             tb == Trigrams(b)
             count == Cardinality(ta \cap tb)
             total == Cardinality(ta \cup tb)
         IN IF total = 0 THEN 0 ELSE (count * Scale) \div total

\* ------------------------------------------------------- embedding model

\* Dimension of the vectors the sentence-transformers model produces and
\* the catalog stores; WrongDim stands for any other dimension.
Dim == "D"
WrongDim == "D'"

\* Dimension of the vectors of another sentence-transformers model, one a
\* SupplierDataLoader was constructed with through its model_name argument.
OtherModelDim == "E"

\* The embedding model, text -> vector. A vector is a unit vector in one of
\* six directions 60 degrees apart, so every cosine is exact.
Encode(name) ==
    CASE name = "memory module" -> [dim |-> Dim, dir |-> 0]
      [] name = "memory kit" -> [dim |-> Dim, dir |-> 1]
      [] name = "cable" -> [dim |-> Dim, dir |-> 3]
      [] OTHER -> [dim |-> Dim, dir |-> 2]

\* Cosine of the angle between two directions, in 1/Scale.
Cosine(d1, d2) ==
    LET k == (d1 - d2 + 6) % 6
    IN CASE k = 0 -> Scale
         [] k \in {1, 5} -> Scale \div 2
         [] k \in {2, 4} -> -(Scale \div 2)
         [] OTHER -> -Scale

\* pgvector's <=> operator: cosine distance, 1 - cosine similarity.
\* It is defined only for vectors of one dimension (the caller checks).
CosineDistance(u, v) == Scale - Cosine(u.dir, v.dir)

\* ------------------------------------------------------------ the tables

\* Table suppliers as ensure_dummy_suppliers_exist fills it: ids 1..count.
Suppliers ==
    [i \in 1..DummySupplierCount |->
        [name |-> <<"Supplier 1", "Supplier 2", "Supplier 3", "Supplier 4",
                    "Supplier 5">>[i],
         email |-> <<"supplier1@example.com", "supplier2@example.com",
                     "supplier3@example.com", "supplier4@example.com",
                     "supplier5@example.com">>[i]]]

\* The values a CSV row can carry after bulk_insert_products has stripped
\* and converted it: text columns are never NULL, an empty part_number
\* column is the empty string.
ProductNames == {"memory module", "memory kit", "cable"}
CatalogPartNumbers == {<<>>, <<"a", "b">>}
Origins == {"United States", "Canada"}
CsvSupplierIds == {1}

\* One tuple of to_insert (category and price are not read by the matcher).
CsvRows ==
    [name : ProductNames, part_number : CatalogPartNumbers,
     supplier_id : CsvSupplierIds, origin : Origins]

\* The row of supplier_products that one to_insert tuple becomes: the
\* embedding is the model's encoding of the product name, the id is serial.
ProductRow(id, r) ==
    [id |-> id, name |-> r.name, part_number |-> r.part_number,
     embedding |-> Encode(r.name), supplier_id |-> r.supplier_id,
     origin |-> r.origin]

\* The rows a loader constructed with another model inserts in the model:
\* the same tuples, fewer of them.
SmallCsvRows ==
    [name : {"memory module"}, part_number : CatalogPartNumbers,
     supplier_id : CsvSupplierIds, origin : {"United States"}]

\* ProductRow for a loader whose model produces vectors of dimension dim.
ProductRowOfModel(id, r, dim) ==
    [ProductRow(id, r) EXCEPT !.embedding = [dim |-> dim, dir |-> Encode(r.name).dir]]

\* ------------------------------------------------------ the SQL statement

\* Python truthiness of an optional text atom: None and "" are false.
Truthy(x) == x # None /\ x # ""

\* A variant of FromWhere: the region filter is never appended.
FromWhereWithoutRegion(cat, delivery_region) ==
    {sp \in Range(cat) : sp.supplier_id \in DOMAIN Suppliers}

\* FROM supplier_products sp JOIN suppliers s ... WHERE 1=1 [AND sp.origin = %s]
FromWhere(cat, delivery_region) ==
    {sp \in Range(cat) :
        /\ sp.supplier_id \in DOMAIN Suppliers
        /\ (Truthy(delivery_region) => sp.origin = delivery_region)}

\* 1 - (sp.embedding <=> %s::vector) AS vector_similarity
VectorSimilarity(sp, vector) == Scale - CosineDistance(sp.embedding, vector)

\* A variant of PnScore: no CASE, similarity() applied to the parameter
\* even when it is NULL.
PnScoreWithoutCase(sp, item_part_number) ==
    similarity(sp.part_number, item_part_number)

\* CASE WHEN %s IS NOT NULL THEN similarity(sp.part_number, %s) ELSE 0.0 END
PnScore(sp, item_part_number) ==
    IF item_part_number # NULL
    THEN similarity(sp.part_number, item_part_number)
    ELSE 0

\* A variant of HybridScore: the weights normalised to sum to one.
HybridScoreNormalised(vector_weight, pn_boost_weight, vector_similarity, pn_score) ==
    IF vector_similarity = NullReal \/ pn_score = NullReal
    THEN NullReal
    ELSE IF vector_weight + pn_boost_weight = 0 THEN 0
    ELSE ((vector_weight * vector_similarity + pn_boost_weight * pn_score) * 10)
            \div (vector_weight + pn_boost_weight)

\* ({vector_weight} * vector_similarity) + ({pn_boost_weight} * pn_score),
\* in 1/HybridUnit; NULL when an operand is NULL.
HybridScore(vector_weight, pn_boost_weight, vector_similarity, pn_score) ==
    IF vector_similarity = NullReal \/ pn_score = NullReal
    THEN NullReal
    ELSE vector_weight * vector_similarity + pn_boost_weight * pn_score

\* One row of CTE base_scores followed by ranked's hybrid_score: the nine
\* columns of SELECT * FROM ranked, in order (Python's row[0] is row[1] here).
RankedRow(sp, vector, a) ==
    LET vs == VectorSimilarity(sp, vector)
        pn == PnScore(sp, a.line_item.part_number)
    IN <<sp.id, sp.name, sp.part_number, sp.origin,
         Suppliers[sp.supplier_id].name, Suppliers[sp.supplier_id].email,
         vs, pn, HybridScore(a.vector_weight, a.pn_boost_weight, vs, pn)>>

\* CTE ranked over the joined, region-filtered products.
Ranked(cat, vector, a) ==
    {RankedRow(sp, vector, a) : sp \in FromWhere(cat, a.line_item.delivery_region)}

\* A variant of PassesThreshold: strict comparison.
PassesThresholdStrictly(hybrid_score, similarity_threshold) ==
    hybrid_score # NullReal /\ hybrid_score > similarity_threshold * Scale

\* WHERE hybrid_score >= %s (a NULL score is not >= anything).
PassesThreshold(hybrid_score, similarity_threshold) ==
    hybrid_score # NullReal /\ hybrid_score >= similarity_threshold * Scale

\* A variant of Selected: the top_k nearest rows by vector similarity are
\* retrieved first and only those are filtered by hybrid score.
SelectedAmongNearest(cat, vector, a) ==
    LET all == Ranked(cat, vector, a)
        near == {r \in all : Cardinality({q \in all : q[7] > r[7]}) < a.top_k}
    IN {r \in near : PassesThreshold(r[9], a.similarity_threshold)}

\* SELECT * FROM ranked WHERE hybrid_score >= %s
Selected(cat, vector, a) ==
    {r \in Ranked(cat, vector, a) : PassesThreshold(r[9], a.similarity_threshold)}

\* A variant of LimitCount: one row more than asked for.
LimitCountOffByOne(n, top_k) == Min(n, top_k + 1)

\* LIMIT %s: the number of rows returned out of n.
LimitCount(n, top_k) == Min(n, top_k)

\* ORDER BY hybrid_score DESC: x may precede y.
InOutputOrder(x, y) == x >= y

\* ORDER BY hybrid_score DESC LIMIT %s: every row sequence the statement may
\* return. The ORDER BY names no second key, so rows whose hybrid_score is
\* equal come in whatever order the executor produces them.
OrderByLimit(sel, top_k) ==
    LET n == LimitCount(Cardinality(sel), top_k)
    IN {s \in [1..n -> sel] :
          /\ \A i, j \in 1..n : i < j => s[i] # s[j] /\ InOutputOrder(s[i][9], s[j][9])
          /\ \A r \in sel \ Range(s) : \A i \in 1..n : InOutputOrder(s[i][9], r[9])}

\* The statement raises when a row's <=> meets a vector of another dimension.
DimensionError(cat, vector, a) ==
    \E sp \in FromWhere(cat, a.line_item.delivery_region) :
        sp.embedding.dim # vector.dim

\* ------------------------------------------------------ the shared session

\* PostgresSingleton sets conn.autocommit = True on the shared connection.
Autocommit == TRUE

\* A variant of SessionAfterStatement: a connection left at psycopg2's
\* default, autocommit off.
SessionAfterStatementInTransaction(ok) == IF ok THEN "intrans" ELSE "inerror"

\* The transaction status of the session after one statement that is not
\* followed by commit or rollback: with autocommit the session is idle
\* again, otherwise a transaction stays open (aborted when the statement
\* failed).
SessionAfterStatement(ok) ==
    IF Autocommit THEN "idle" ELSE IF ok THEN "intrans" ELSE "inerror"

\* ------------------------------------------------------------ row decoding

\* Python's round(x, 4) of a value in 1/unit, in 1/10^4: to the nearest,
\* a tie to the even neighbour.
Round4(x, unit) ==
    LET step == unit \div 10^4
        lo == x \div step
        rem == x % step
    IN IF 2 * rem > step \/ (2 * rem = step /\ lo % 2 = 1) THEN lo + 1 ELSE lo

\* The (product, score) pair appended for one fetched row: row[0..4] and
\* row[7] in Python, columns 1..5 and 8 here.
DecodeRow(row) ==
    <<[id |-> row[1], name |-> row[2], part_number |-> row[3],
       supplier_name |-> row[4], email |-> row[5]],
      Round4(row[8], Scale)>>

DecodeRows(rs) == [i \in 1..Len(rs) |-> DecodeRow(rs[i])]

\* --------------------------------------------------------------- the state

\* The matcher and the catalog.
VARIABLES
    catalog,       \* table supplier_products: the sequence of its rows, by id
    pc,            \* where the match_suppliers call is: idle, encode, query, done
    args,          \* the call's arguments: line_item, top_k, weights, threshold
    vector,        \* the call's local `vector`
    rows,          \* what cur.fetchall() returned
    results,       \* the list the call returned
    raised,        \* the exception the call raised, "none" when it returned
    embed_status,  \* what the embedding model did in this call
    query_status,  \* what the database did in this call
    fresh,         \* no row was inserted since this call's statement ran
    prev,          \* <<results>> of the fault-free call just before this one,
                   \* when it had the same arguments and snapshot; else <<>>
    session        \* transaction status of the shared connection's session

matcherVars ==
    <<catalog, pc, args, vector, rows, results, raised, embed_status,
      query_status, fresh, prev, session>>

\* The other components, each with a specification of its own.
VARIABLES
    scorer,        \* _part_number_similarity: the two arguments and results
    connections,   \* PostgresSingleton._connections: dsn -> connection
    lock,          \* PostgresSingleton._lock: the thread holding it, 0 if free
    threads,       \* the threads inside PostgresSingleton.__new__
    opened,        \* every connection psycopg2.connect has returned
    stored,        \* every (dsn, connection) ever put into _connections
    rfq_logs,      \* table rfq_logs: the message ids logged
    ingestors,     \* the _parse_and_preprocess operations in progress
    delivered,     \* per message id, how many operations returned content
    llm,           \* one LLMBidParser.parse call
    factory,       \* one BidParserFactory.get_parser call
    sewp           \* one SEWPBidParser._parse_line_items call

scorerVars == <<scorer>>
singletonVars == <<connections, lock, threads, opened, stored>>
ingestVars == <<rfq_logs, ingestors, delivered>>
llmVars == <<llm>>
factoryVars == <<factory>>
sewpVars == <<sewp>>

vars ==
    <<matcherVars, scorerVars, singletonVars, ingestVars, llmVars, factoryVars,
      sewpVars>>

\* What a step of one component leaves alone: the other components.
exceptMatcher ==
    <<scorerVars, singletonVars, ingestVars, llmVars, factoryVars,
      sewpVars>>
exceptScorer ==
    <<matcherVars, singletonVars, ingestVars, llmVars, factoryVars,
      sewpVars>>
exceptSingleton ==
    <<matcherVars, scorerVars, ingestVars, llmVars, factoryVars,
      sewpVars>>
exceptIngest ==
    <<matcherVars, scorerVars, singletonVars, llmVars, factoryVars,
      sewpVars>>
exceptLLM ==
    <<matcherVars, scorerVars, singletonVars, ingestVars, factoryVars,
      sewpVars>>
exceptSEWP ==
    <<matcherVars, scorerVars, singletonVars, ingestVars, llmVars, factoryVars>>
exceptFactory ==
    <<matcherVars, scorerVars, singletonVars, ingestVars, llmVars,
      sewpVars>>

\* The arguments the model calls match_suppliers with: the defaults, a
\* small top_k, and weights that do not sum to one with a threshold that a
\* score can equal.
ItemPartNumbers == {NULL, <<>>, <<"a", "b">>, <<"a">>}
DeliveryRegions == {None, "United States"}
Configs ==
    {[top_k |-> DefaultTopK, vector_weight |-> DefaultVectorWeight,
      pn_boost_weight |-> DefaultPnBoostWeight,
      similarity_threshold |-> DefaultSimilarityThreshold],
     [top_k |-> 1, vector_weight |-> DefaultVectorWeight,
      pn_boost_weight |-> DefaultPnBoostWeight,
      similarity_threshold |-> DefaultSimilarityThreshold],
     [top_k |-> DefaultTopK, vector_weight |-> 10, pn_boost_weight |-> 10,
      similarity_threshold |-> 10]}

\* One more configuration, used with one line item: a single result wanted,
\* with weights under which a part-number match outranks a nearer vector.
SingleResultConfig ==
    [top_k |-> 1, vector_weight |-> 10, pn_boost_weight |-> 10,
     similarity_threshold |-> 10]

SingleResultLineItem ==
    [name |-> "memory module", part_number |-> <<"a", "b">>,
     delivery_region |-> None]

MakeArgs(li, c) ==
    [line_item |-> li, top_k |-> c.top_k, pn_boost_weight |-> c.pn_boost_weight,
     vector_weight |-> c.vector_weight,
     similarity_threshold |-> c.similarity_threshold]

\* Line items with a name, and one line item without the "name" key.
NamedLineItems ==
    [name : {"memory module"}, part_number : ItemPartNumbers,
     delivery_region : DeliveryRegions]

NamelessLineItem == [name |-> None, part_number |-> NULL, delivery_region |-> None]

\* A line item whose name is the empty string.
EmptyNameLineItem == [name |-> "", part_number |-> NULL, delivery_region |-> None]

DefaultConfigs ==
    {d \in Configs : d.top_k = DefaultTopK /\ d.vector_weight = DefaultVectorWeight}

Args ==
    {MakeArgs(li, c) : li \in NamedLineItems, c \in Configs}
        \cup {MakeArgs(li, c) :
                li \in {NamelessLineItem, EmptyNameLineItem}, c \in DefaultConfigs}
        \cup {MakeArgs(SingleResultLineItem, SingleResultConfig)}

NoArgs ==
    [line_item |-> NamelessLineItem, top_k |-> 0, pn_boost_weight |-> 0,
     vector_weight |-> 0, similarity_threshold |-> 0]

\* Python's empty list as `vector`.
EmptyVector == [dim |-> "0", dir |-> 0]

\* The matcher before its first call, on an empty catalog.
MatcherInit ==
    /\ catalog = <<>>
    /\ pc = "idle"
    /\ args = NoArgs
    /\ vector = EmptyVector
    /\ rows = <<>>
    /\ results = <<>>
    /\ raised = "none"
    /\ embed_status = "not_run"
    /\ query_status = "not_run"
    /\ fresh = FALSE
    /\ prev = <<>>
    /\ session = "idle"

\* --------------------------------------------- _part_number_similarity

\* str.lower() of a part number.
LowerStr(s) == [i \in 1..Len(s) |-> Lower(s[i])]

\* The length of the run of equal characters starting at a[i] and b[j],
\* inside a[..ahi-1] and b[..bhi-1].
RECURSIVE RunLength(_, _, _, _, _, _)
RunLength(a, b, i, j, ahi, bhi) ==
    IF i < ahi /\ j < bhi /\ a[i] = b[j]
    THEN 1 + RunLength(a, b, i + 1, j + 1, ahi, bhi)
    ELSE 0

\* SequenceMatcher.find_longest_match(alo, ahi, blo, bhi) without junk:
\* <<i, j, k>> with a[i..i+k-1] = b[j..j+k-1], k the largest possible; of
\* the longest blocks the one that starts earliest in a, and of those the
\* one that starts earliest in b; <<alo, blo, 0>> when nothing matches.
find_longest_match(a, b, alo, ahi, blo, bhi) ==
    LET starts == (alo..(ahi - 1)) \X (blo..(bhi - 1))
        size(p) == RunLength(a, b, p[1], p[2], ahi, bhi)
        longest == {p \in starts : \A q \in starts : size(q) <= size(p)}
        earliest ==
            {p \in longest :
                \A q \in longest : p[1] < q[1] \/ (p[1] = q[1] /\ p[2] <= q[2])}
    IN IF starts = {} \/ \A p \in starts : size(p) = 0
       THEN <<alo, blo, 0>>
       ELSE LET p == CHOOSE q \in earliest : TRUE IN <<p[1], p[2], size(p)>>

\* The sum of the sizes of SequenceMatcher.get_matching_blocks(): the
\* longest block, then recursively the pieces left and right of it.
RECURSIVE Matches(_, _, _, _, _, _)
Matches(a, b, alo, ahi, blo, bhi) ==
    LET m == find_longest_match(a, b, alo, ahi, blo, bhi)
        i == m[1]
        j == m[2]
        k == m[3]
    IN IF k = 0
       THEN 0
       ELSE k + (IF alo < i /\ blo < j THEN Matches(a, b, alo, i, blo, j) ELSE 0)
              + (IF i + k < ahi /\ j + k < bhi
                 THEN Matches(a, b, i + k, ahi, j + k, bhi)
                 ELSE 0)

\* SequenceMatcher(None, a, b).ratio(): 2.0 * matches / (len(a) + len(b)),
\* 1.0 for two empty sequences; in units of 1/Scale.
ratio(a, b) ==
    IF Len(a) + Len(b) = 0
    THEN Scale
    ELSE (2 * Matches(a, b, 1, Len(a) + 1, 1, Len(b) + 1) * Scale)
             \div (Len(a) + Len(b))

\* HybridSupplierMatcher._part_number_similarity(item_pn, db_pn).
part_number_similarity(item_pn, db_pn) ==
    IF item_pn \in {NULL, <<>>} \/ db_pn \in {NULL, <<>>}
    THEN 0
    ELSE ratio(LowerStr(item_pn), LowerStr(db_pn))

\* The part numbers the function is applied to: None and every string over
\* PnAlphabet of at most MaxPnLen characters.
MaxPnLen == 4
PnAlphabet == {"a", "b", "A"}

RECURSIVE StringsOfLength(_)
StringsOfLength(n) ==
    IF n = 0
    THEN {<<>>}
    ELSE {Append(s, c) : s \in StringsOfLength(n - 1), c \in PnAlphabet}

PnStrings == {NULL} \cup UNION {StringsOfLength(n) : n \in 0..MaxPnLen}

\* The other components at rest.
ScorerAtRest ==
    scorer = [item_pn |-> NULL, db_pn |-> NULL, forward |-> NullReal,
              backward |-> NullReal]

\* How many threads call PostgresSingleton, and with which DSNs; how many
\* times psycopg2.connect succeeds at most.
NumThreads == 2
Threads == 1..NumThreads
DSNs == {"dsn_a", "dsn_b"}
MaxConnects == 3

\* The DSN _build_dsn_from_env() builds from the environment.
EnvDsn == "dsn_a"

SingletonAtRest ==
    /\ connections = [d \in DSNs |-> 0]
    /\ lock = 0
    /\ threads = [t \in Threads |-> [pc |-> "idle", dsn |-> "", conn |-> 0, ret |-> 0]]
    /\ opened = {}
    /\ stored = {}

\* How many ingest operations run at a time, and on which Message-IDs; how
\* many times at most the content of one message is returned.
NumIngests == 2
Ingests == 1..NumIngests
MessageIds == {"<m1>", "<m2>"}
MaxDelivered == 2

IngestAtRest ==
    /\ rfq_logs = {}
    /\ ingestors = [w \in Ingests |-> [pc |-> "idle", message_id |-> "", ret |-> "none"]]
    /\ delivered = [m \in MessageIds |-> 0]

\* LLMBidParser.__init__: max_retries: int = 2, strict: bool = True.
DefaultMaxRetries == 2

\* The largest max_retries a parser is constructed with.
MaxRetries == 3

\* No response: parse has returned no data.
NoData ==
    [chat_ok |-> FALSE, json_ok |-> FALSE, is_dict |-> FALSE,
     has_due_date |-> FALSE, has_items |-> FALSE, due_date |-> "none",
     items |-> "none"]

\* A constructed parser whose parse has not been called: attempt is the loop
\* variable, calls counts self.llm.chat calls, log holds the exception of
\* each failed attempt, data is the response parse returned.
LLMAtRest ==
    llm = [pc |-> "idle", max_retries |-> DefaultMaxRetries, strict |-> TRUE,
           attempt |-> 0, calls |-> 0, result |-> "none", log |-> <<>>,
           data |-> NoData]

FactoryAtRest ==
    factory = [pc |-> "idle", source_type |-> <<>>, parser_class |-> "none",
               result |-> "none", raised |-> "none"]

\* How many lines the text given to _parse_line_items has at most.
MaxLines == 3

\* No call of _parse_line_items: lines is text.strip().splitlines(), each
\* line as line.split("|"); i is the loop's position; items is the list
\* being built.
SEWPAtRest == sewp = [pc |-> "idle", lines |-> <<>>, i |-> 1, items |-> <<>>]

Init ==
    /\ MatcherInit
    /\ ScorerAtRest
    /\ SingletonAtRest
    /\ IngestAtRest
    /\ LLMAtRest
    /\ FactoryAtRest
    /\ SEWPAtRest

\* ----------------------------------------------------------- the operations

\* One INSERT statement of a loader whose model has dimension dim: the rows
\* of to_insert get the next serial ids; conn.commit() follows.
BulkInsert(dim, csv_rows) ==
    \E n \in 1..(MaxProducts - Len(catalog)) :
        \E to_insert \in [1..n -> csv_rows] :
            /\ catalog' = catalog \o
                   [i \in 1..n |->
                       ProductRowOfModel(Len(catalog) + i, to_insert[i], dim)]
            /\ fresh' = FALSE
            /\ prev' = <<>>
            /\ UNCHANGED <<pc, args, vector, rows, results, raised,
                           embed_status, query_status, session>>
            /\ UNCHANGED exceptMatcher

\* SupplierDataLoader.bulk_insert_products, the loader constructed with the
\* matcher's model.
bulk_insert_products == BulkInsert(Dim, CsvRows)

\* bulk_insert_products of a loader constructed with a given model_name.
bulk_insert_products_of_model(dim) == BulkInsert(dim, SmallCsvRows)

\* match_suppliers is entered: it reads line_item["name"] (KeyError when the
\* key is missing), part_number and delivery_region.
match_suppliers(a) ==
    /\ pc \in {"idle", "done"}
    /\ args' = a
    /\ prev' = IF /\ pc = "done" /\ fresh /\ a = args /\ raised = "none"
                  /\ embed_status = "ok" /\ query_status = "ok"
               THEN <<results>>
               ELSE <<>>
    /\ vector' = EmptyVector
    /\ rows' = <<>>
    /\ results' = <<>>
    /\ embed_status' = "not_run"
    /\ query_status' = "not_run"
    /\ fresh' = FALSE
    /\ IF a.line_item.name = None
       THEN pc' = "done" /\ raised' = "KeyError"
       ELSE pc' = "encode" /\ raised' = "none"
    /\ UNCHANGED <<catalog, session>>
    /\ UNCHANGED exceptMatcher

\* _encode_description: the model's vector, or [] when encode raises; then
\* match_suppliers returns [] for an empty vector.
EncodeOutcomes == {"ok", "failed", "malformed"}

encode_description(outcome) ==
    /\ pc = "encode"
    /\ embed_status' = outcome
    /\ vector' = CASE outcome = "ok" -> Encode(args.line_item.name)
                   [] outcome = "malformed" ->
                        [dim |-> WrongDim, dir |-> Encode(args.line_item.name).dir]
                   [] OTHER -> EmptyVector
    /\ pc' = IF vector' = EmptyVector THEN "done" ELSE "query"
    /\ UNCHANGED <<catalog, args, rows, results, raised, query_status, fresh,
                   prev, session>>
    /\ UNCHANGED exceptMatcher

\* The try block: the statement runs and the rows are decoded, or an
\* exception (database unreachable, statement error) is caught and printed;
\* either way `results` is returned.  A statement that reached the server
\* leaves the session as SessionAfterStatement says; the call issues no
\* commit, rollback or SET.
execute_query(db_ok) ==
    /\ pc = "query"
    /\ pc' = "done"
    /\ fresh' = TRUE
    /\ IF db_ok /\ ~DimensionError(catalog, vector, args)
       THEN /\ rows' \in OrderByLimit(Selected(catalog, vector, args), args.top_k)
            /\ query_status' = "ok"
       ELSE /\ rows' = <<>>
            /\ query_status' = IF db_ok THEN "statement_error" ELSE "db_error"
    /\ results' = DecodeRows(rows')
    /\ session' = IF db_ok THEN SessionAfterStatement(query_status' = "ok")
                  ELSE session
    /\ UNCHANGED <<catalog, args, vector, raised, embed_status, prev>>
    /\ UNCHANGED exceptMatcher

Next ==
    \/ bulk_insert_products
    \/ \E a \in Args : match_suppliers(a)
    \/ \E outcome \in EncodeOutcomes : encode_description(outcome)
    \/ \E db_ok \in BOOLEAN : execute_query(db_ok)

Spec == Init /\ [][Next]_vars

\* The catalog filled by loaders of two models.
Models == {Dim, OtherModelDim}

NextModels ==
    \/ \E dim \in Models : bulk_insert_products_of_model(dim)
    \/ \E a \in Args : match_suppliers(a)
    \/ \E outcome \in EncodeOutcomes : encode_description(outcome)
    \/ \E db_ok \in BOOLEAN : execute_query(db_ok)

SpecModels == Init /\ [][NextModels]_vars

\* ------------------------------------- _part_number_similarity, by itself

\* Two part numbers are given; the function is then applied to them in
\* either order.
InitLexical ==
    /\ MatcherInit
    /\ scorer \in [item_pn : PnStrings, db_pn : PnStrings,
                    forward : {NullReal}, backward : {NullReal}]
    /\ SingletonAtRest
    /\ IngestAtRest
    /\ LLMAtRest
    /\ FactoryAtRest
    /\ SEWPAtRest

\* _part_number_similarity(item_pn, db_pn)
score_forward ==
    /\ scorer.forward = NullReal
    /\ scorer' = [scorer EXCEPT
                     !.forward = part_number_similarity(scorer.item_pn, scorer.db_pn)]
    /\ UNCHANGED exceptScorer

\* _part_number_similarity(db_pn, item_pn)
score_backward ==
    /\ scorer.backward = NullReal
    /\ scorer' = [scorer EXCEPT
                     !.backward = part_number_similarity(scorer.db_pn, scorer.item_pn)]
    /\ UNCHANGED exceptScorer

NextLexical == score_forward \/ score_backward

SpecLexical == InitLexical /\ [][NextLexical]_vars

\* ------------------------------------------------------ PostgresSingleton

\* A variant of LockIsFree: acquiring never waits.
LockIsFreeAlways(l) == TRUE

\* threading.Lock: `with cls._lock` enters only when no thread holds it.
LockIsFree(l) == l = 0

\* PostgresSingleton(dsn) is called: dsn = dsn or cls._build_dsn_from_env().
call_singleton(t, dsn) ==
    /\ threads[t].pc \in {"idle", "done", "raised"}
    /\ threads' = [threads EXCEPT ![t] =
                      [pc |-> "acquire",
                       dsn |-> IF dsn = None THEN EnvDsn ELSE dsn,
                       conn |-> 0, ret |-> 0]]
    /\ UNCHANGED <<connections, lock, opened, stored>>
    /\ UNCHANGED exceptSingleton

\* with cls._lock: (entry)
acquire_lock(t) ==
    /\ threads[t].pc = "acquire"
    /\ LockIsFree(lock)
    /\ lock' = t
    /\ threads' = [threads EXCEPT ![t].pc = "check"]
    /\ UNCHANGED <<connections, opened, stored>>
    /\ UNCHANGED exceptSingleton

\* if dsn not in cls._connections:
check_connections(t) ==
    /\ threads[t].pc = "check"
    /\ threads' = [threads EXCEPT ![t].pc =
                      IF connections[threads[t].dsn] = 0 THEN "connect" ELSE "return"]
    /\ UNCHANGED <<connections, lock, opened, stored>>
    /\ UNCHANGED exceptSingleton

\* conn = psycopg2.connect(dsn); conn.autocommit = True.  A failure goes to
\* the except clause.
connect(t, ok) ==
    /\ threads[t].pc = "connect"
    /\ IF ok
       THEN /\ Cardinality(opened) < MaxConnects
            /\ opened' = opened \cup {<<threads[t].dsn, Cardinality(opened) + 1>>}
            /\ threads' = [threads EXCEPT ![t].pc = "extension",
                                          ![t].conn = Cardinality(opened) + 1]
       ELSE /\ threads' = [threads EXCEPT ![t].pc = "except"]
            /\ UNCHANGED opened
    /\ UNCHANGED <<connections, lock, stored>>
    /\ UNCHANGED exceptSingleton

\* cur.execute("CREATE EXTENSION IF NOT EXISTS vector")
create_extension(t, ok) ==
    /\ threads[t].pc = "extension"
    /\ threads' = [threads EXCEPT ![t].pc = IF ok THEN "store" ELSE "except"]
    /\ UNCHANGED <<connections, lock, opened, stored>>
    /\ UNCHANGED exceptSingleton

\* cls._connections[dsn] = conn
store_connection(t) ==
    /\ threads[t].pc = "store"
    /\ connections' = [connections EXCEPT ![threads[t].dsn] = threads[t].conn]
    /\ stored' = stored \cup {<<threads[t].dsn, threads[t].conn>>}
    /\ threads' = [threads EXCEPT ![t].pc = "return"]
    /\ UNCHANGED <<lock, opened>>
    /\ UNCHANGED exceptSingleton

\* return cls._connections[dsn], leaving the with block.
return_connection(t) ==
    /\ threads[t].pc = "return"
    /\ threads' = [threads EXCEPT ![t].pc = "done",
                                  ![t].ret = connections[threads[t].dsn]]
    /\ lock' = 0
    /\ UNCHANGED <<connections, opened, stored>>
    /\ UNCHANGED exceptSingleton

\* except Exception: print, raise; leaving the with block.
reraise(t) ==
    /\ threads[t].pc = "except"
    /\ threads' = [threads EXCEPT ![t].pc = "raised"]
    /\ lock' = 0
    /\ UNCHANGED <<connections, opened, stored>>
    /\ UNCHANGED exceptSingleton

NextSingleton ==
    \/ \E t \in Threads : \E dsn \in DSNs \cup {None} : call_singleton(t, dsn)
    \/ \E t \in Threads : acquire_lock(t)
    \/ \E t \in Threads : check_connections(t)
    \/ \E t \in Threads : \E ok \in BOOLEAN : connect(t, ok)
    \/ \E t \in Threads : \E ok \in BOOLEAN : create_extension(t, ok)
    \/ \E t \in Threads : store_connection(t)
    \/ \E t \in Threads : return_connection(t)
    \/ \E t \in Threads : reraise(t)

SpecSingleton == Init /\ [][NextSingleton]_vars

\* ---------------------------------------- EmailIngestor, MessageLogStore

\* _parse_and_preprocess(msg) is entered for a message with the given
\* Message-ID.
parse_and_preprocess(w, message_id) ==
    /\ ingestors[w].pc \in {"idle", "done"}
    /\ delivered[message_id] < MaxDelivered
    /\ ingestors' = [ingestors EXCEPT ![w] =
                        [pc |-> "has_seen", message_id |-> message_id, ret |-> "none"]]
    /\ UNCHANGED <<rfq_logs, delivered>>
    /\ UNCHANGED exceptIngest

\* MessageLogStore.has_seen: SELECT 1 FROM rfq_logs WHERE message_id = %s;
\* False when the query raises.  A seen message makes the operation return
\* None.
has_seen(w, db_ok) ==
    /\ ingestors[w].pc = "has_seen"
    /\ ingestors' = [ingestors EXCEPT ![w] =
                        IF db_ok /\ ingestors[w].message_id \in rfq_logs
                        THEN [@ EXCEPT !.pc = "done", !.ret = "None"]
                        ELSE [@ EXCEPT !.pc = "log"]]
    /\ UNCHANGED <<rfq_logs, delivered>>
    /\ UNCHANGED exceptIngest

\* What the rest of the try block can do: the body is extracted and
\* preprocessed (an exception returns None), then MessageLogStore.log runs
\* INSERT ... ON CONFLICT (message_id) DO NOTHING and commits; when that
\* raises, log prints and rolls back, and the rollback may raise in turn.
LogOutcomes == {"preprocess_raised", "logged", "log_failed", "rollback_raised"}

\* The rest of _parse_and_preprocess after the has_seen test.
log_and_return(w, outcome) ==
    /\ ingestors[w].pc = "log"
    /\ rfq_logs' = IF outcome = "logged"
                   THEN rfq_logs \cup {ingestors[w].message_id}
                   ELSE rfq_logs
    /\ IF outcome \in {"logged", "log_failed"}
       THEN /\ ingestors' = [ingestors EXCEPT ![w].pc = "done", ![w].ret = "content"]
            /\ delivered' = [delivered EXCEPT ![ingestors[w].message_id] = @ + 1]
       ELSE /\ ingestors' = [ingestors EXCEPT ![w].pc = "done", ![w].ret = "None"]
            /\ UNCHANGED delivered
    /\ UNCHANGED exceptIngest

NextIngest ==
    \/ \E w \in Ingests : \E message_id \in MessageIds :
           parse_and_preprocess(w, message_id)
    \/ \E w \in Ingests : \E db_ok \in BOOLEAN : has_seen(w, db_ok)
    \/ \E w \in Ingests : \E outcome \in LogOutcomes : log_and_return(w, outcome)

SpecIngest == Init /\ [][NextIngest]_vars

\* ----------------------------------------------------------- LLMBidParser

\* What self.llm.chat(prompt) can do: raise, or return a text that is or is
\* not JSON, whose value is or is not a dict with the keys due_date and
\* items, with a due_date that is null, an ISO date or something else, and
\* items that are a list of well-formed items, not a list, or a list with an
\* item lacking a key.
Response(chat_ok, json_ok, is_dict, has_due_date, has_items, due_date, items) ==
    [chat_ok |-> chat_ok, json_ok |-> json_ok, is_dict |-> is_dict,
     has_due_date |-> has_due_date, has_items |-> has_items,
     due_date |-> due_date, items |-> items]

Responses ==
    {Response(FALSE, FALSE, FALSE, FALSE, FALSE, "null", "list"),
     Response(TRUE, FALSE, FALSE, FALSE, FALSE, "null", "list"),
     Response(TRUE, TRUE, FALSE, FALSE, FALSE, "null", "list"),
     Response(TRUE, TRUE, TRUE, FALSE, TRUE, "null", "list"),
     Response(TRUE, TRUE, TRUE, TRUE, FALSE, "iso", "list"),
     Response(TRUE, TRUE, TRUE, TRUE, TRUE, "other", "list"),
     Response(TRUE, TRUE, TRUE, TRUE, TRUE, "iso", "not_list"),
     Response(TRUE, TRUE, TRUE, TRUE, TRUE, "iso", "item_lacks_key"),
     Response(TRUE, TRUE, TRUE, TRUE, TRUE, "iso", "list"),
     Response(TRUE, TRUE, TRUE, TRUE, TRUE, "null", "list")}

\* _validate(data): the exception it raises, or "valid".
validate(r) ==
    CASE ~r.is_dict \/ ~r.has_due_date \/ ~r.has_items -> "ValueError"
      [] r.due_date = "other" -> "ValueError"
      [] r.items = "not_list" -> "TypeError"
      [] r.items = "item_lacks_key" -> "ValueError"
      [] OTHER -> "valid"

\* The body of the try block of one attempt: chat, json.loads, _validate.
AttemptOutcome(r) ==
    CASE ~r.chat_ok -> "Exception"
      [] ~r.json_ok -> "JSONDecodeError"
      [] OTHER -> validate(r)

\* A parser constructed with some max_retries and strict; parse is entered.
InitLLM ==
    /\ MatcherInit
    /\ ScorerAtRest
    /\ SingletonAtRest
    /\ IngestAtRest
    /\ llm \in [pc : {"loop"}, max_retries : 0..MaxRetries, strict : BOOLEAN,
                attempt : {0}, calls : {0}, result : {"none"}, log : {<<>>},
                data : {NoData}]
    /\ FactoryAtRest
    /\ SEWPAtRest

\* One iteration of `for attempt in range(1, self.max_retries + 1)`.
llm_attempt(r) ==
    /\ llm.pc = "loop"
    /\ llm.attempt < llm.max_retries
    /\ llm' = IF AttemptOutcome(r) = "valid"
              THEN [llm EXCEPT !.attempt = @ + 1, !.calls = @ + 1,
                               !.pc = "done", !.result = "data", !.data = r]
              ELSE [llm EXCEPT !.attempt = @ + 1, !.calls = @ + 1,
                               !.log = Append(@, AttemptOutcome(r))]
    /\ UNCHANGED exceptLLM

\* After the loop: raise RuntimeError when strict, else the empty default.
llm_give_up ==
    /\ llm.pc = "loop"
    /\ llm.attempt = llm.max_retries
    /\ llm' = [llm EXCEPT !.pc = "done",
                          !.result = IF llm.strict THEN "RuntimeError"
                                     ELSE "empty_default"]
    /\ UNCHANGED exceptLLM

NextLLM ==
    \/ \E r \in Responses : llm_attempt(r)
    \/ llm_give_up

SpecLLM == InitLLM /\ [][NextLLM]_vars

\* -------------------------------------------------------- BidParserFactory

\* str.upper() on the letters of the source types.
Upper(c) ==
    CASE c = "s" -> "S"
      [] c = "e" -> "E"
      [] c = "w" -> "W"
      [] c = "p" -> "P"
      [] c = "g" -> "G"
      [] c = "a" -> "A"
      [] OTHER -> c

UpperStr(s) == [i \in 1..Len(s) |-> Upper(s[i])]

SourceAlphabet == {"S", "s", "E", "e", "W", "w", "P", "p", "G", "g", "A", "a"}

\* Every way of writing a word in upper and lower case.
CaseVariants(word) ==
    {s \in [1..Len(word) -> SourceAlphabet] : UpperStr(s) = word}

SEWP == <<"S", "E", "W", "P">>

\* The source types get_parser is called with: 'SEWP', 'GSA', 'SEW' and
\* 'SEWA' in any case, the empty string, and None.
SourceTypes ==
    CaseVariants(SEWP) \cup CaseVariants(<<"G", "S", "A">>)
        \cup CaseVariants(<<"S", "E", "W">>)
        \cup CaseVariants(<<"S", "E", "W", "A">>) \cup {<<>>, NULL}

\* parsers.get(key, LLMBidParser) with parsers = {"SEWP": SEWPBidParser}.
parsers_get(key) == IF key = SEWP THEN "SEWPBidParser" ELSE "LLMBidParser"

\* How many positional arguments a class's constructor requires:
\* LLMBidParser.__init__(self, llm_client, ...) one, SEWPBidParser (no
\* __init__) none.
RequiredArguments(cls) == IF cls = "LLMBidParser" THEN 1 ELSE 0

\* cls(): an instance, named by its class, or TypeError for a missing
\* argument.
Construct(cls) == IF RequiredArguments(cls) > 0 THEN "TypeError" ELSE cls

\* get_parser(source_type) is entered.
InitFactory ==
    /\ MatcherInit
    /\ ScorerAtRest
    /\ SingletonAtRest
    /\ IngestAtRest
    /\ LLMAtRest
    /\ factory \in [pc : {"lookup"}, source_type : SourceTypes,
                    parser_class : {"none"}, result : {"none"}, raised : {"none"}]
    /\ SEWPAtRest

\* parser_class = parsers.get(source_type.upper(), LLMBidParser); None has
\* no upper().
lookup_parser ==
    /\ factory.pc = "lookup"
    /\ factory' = IF factory.source_type = NULL
                  THEN [factory EXCEPT !.pc = "except"]
                  ELSE [factory EXCEPT
                           !.pc = "instantiate",
                           !.parser_class = parsers_get(UpperStr(factory.source_type))]
    /\ UNCHANGED exceptFactory

\* return parser_class()
instantiate_parser ==
    /\ factory.pc = "instantiate"
    /\ factory' = IF Construct(factory.parser_class) = "TypeError"
                  THEN [factory EXCEPT !.pc = "except"]
                  ELSE [factory EXCEPT !.pc = "done",
                                       !.result = Construct(factory.parser_class)]
    /\ UNCHANGED exceptFactory

\* except Exception: print; return LLMBidParser()
fallback_parser ==
    /\ factory.pc = "except"
    /\ factory' = IF Construct("LLMBidParser") = "TypeError"
                  THEN [factory EXCEPT !.pc = "done", !.raised = "TypeError"]
                  ELSE [factory EXCEPT !.pc = "done",
                                       !.result = Construct("LLMBidParser")]
    /\ UNCHANGED exceptFactory

NextFactory == lookup_parser \/ instantiate_parser \/ fallback_parser

SpecFactory == InitFactory /\ [][NextFactory]_vars

\* ------------------------------------------------------------ SEWPBidParser

\* p.strip() on the parts of the lines below.
Strip(p) ==
    CASE p = " Cable " -> "Cable"
      [] p = " 1 " -> "1"
      [] OTHER -> p

\* name.lower() on the names of the lines below.
LowerName(name) ==
    CASE name = "Memory Module" -> "memory module"
      [] name = "Cable" -> "cable"
      [] name = "Services Delivery Region" -> "services delivery region"
      [] name = "SELECTED REGION FOR SERVICES DELIVERY" ->
             "selected region for services delivery"
      [] OTHER -> name

\* int(p): the parts it accepts, and its value.
IsInt(p) == p \in {"1", "2"}
IntOf(p) == IF p = "1" THEN 1 ELSE 2

\* The lines of a line_items.txt, each as line.split("|"): two regular
\* lines (one with a leading column and padded parts), two delivery-region
\* lines, a line whose quantity is not a number, and a blank line.
SEWPLines ==
    {<<"PN1", "Memory Module", "2">>,
     <<"7", "PN2", " Cable ", " 1 ">>,
     <<"CONUS", "Services Delivery Region", "1">>,
     <<"OCONUS", "SELECTED REGION FOR SERVICES DELIVERY", "1">>,
     <<"PN1", "Memory Module", "x">>,
     <<"">>}

Texts == UNION {[1..n -> SEWPLines] : n \in 0..MaxLines}

\* parts = [p.strip() for p in line.split("|")]
Parts(line) == [k \in 1..Len(line) |-> Strip(line[k])]

\* parts[-k]
FromEnd(parts, k) == parts[Len(parts) + 1 - k]

\* len(parts) >= 3 and int(parts[-1]) does not raise.
WellFormed(line) == Len(line) >= 3 /\ IsInt(FromEnd(Parts(line), 1))

\* is_delivery_region
IsDeliveryRegion(line) ==
    LowerName(FromEnd(Parts(line), 2))
        \in {"services delivery region", "selected region for services delivery"}

\* _parse_line_items(text) is entered.
InitSEWP ==
    /\ MatcherInit
    /\ ScorerAtRest
    /\ SingletonAtRest
    /\ IngestAtRest
    /\ LLMAtRest
    /\ FactoryAtRest
    /\ sewp \in [pc : {"loop"}, lines : Texts, i : {1}, items : {<<>>}]

\* A line with fewer than three parts, or whose quantity int() rejects, is
\* skipped.
skip_line ==
    /\ sewp.pc = "loop"
    /\ sewp.i <= Len(sewp.lines)
    /\ ~WellFormed(sewp.lines[sewp.i])
    /\ sewp' = [sewp EXCEPT !.i = @ + 1]
    /\ UNCHANGED exceptSEWP

\* if is_delivery_region and items: items[-1]["delivery_region"] = part_number
attach_delivery_region ==
    /\ sewp.pc = "loop"
    /\ sewp.i <= Len(sewp.lines)
    /\ WellFormed(sewp.lines[sewp.i])
    /\ IsDeliveryRegion(sewp.lines[sewp.i]) /\ sewp.items # <<>>
    /\ sewp' = [sewp EXCEPT
                   !.i = @ + 1,
                   !.items[Len(sewp.items)].delivery_region =
                       FromEnd(Parts(sewp.lines[sewp.i]), 3)]
    /\ UNCHANGED exceptSEWP

\* else: items.append({"name": ..., "quantity": ..., "part_number": ...})
append_item ==
    /\ sewp.pc = "loop"
    /\ sewp.i <= Len(sewp.lines)
    /\ WellFormed(sewp.lines[sewp.i])
    /\ ~(IsDeliveryRegion(sewp.lines[sewp.i]) /\ sewp.items # <<>>)
    /\ sewp' = [sewp EXCEPT
                   !.i = @ + 1,
                   !.items = Append(@,
                       [name |-> FromEnd(Parts(sewp.lines[sewp.i]), 2),
                        quantity |-> IntOf(FromEnd(Parts(sewp.lines[sewp.i]), 1)),
                        part_number |-> FromEnd(Parts(sewp.lines[sewp.i]), 3),
                        delivery_region |-> None])]
    /\ UNCHANGED exceptSEWP

\* return items
return_items ==
    /\ sewp.pc = "loop"
    /\ sewp.i > Len(sewp.lines)
    /\ sewp' = [sewp EXCEPT !.pc = "done"]
    /\ UNCHANGED exceptSEWP

NextSEWP == skip_line \/ attach_delivery_region \/ append_item \/ return_items

SpecSEWP == InitSEWP /\ [][NextSEWP]_vars

\* ------------------------------------------------------------- properties

\* The call has returned and its statement ran on the catalog as it is now.
QueryRan == pc = "done" /\ query_status = "ok" /\ fresh

\* Every candidate row of the call's statement, before WHERE / ORDER / LIMIT.
Candidates == Ranked(catalog, vector, args)

\* The candidate row of a returned product.
CandidateOf(product) == CHOOSE c \in Candidates : c[1] = product.id

\* Python's `not x` for an optional part number.
Absent(x) == x = NULL \/ x = <<>>

ThresholdScore == args.similarity_threshold * Scale

\* C1: every returned (product, score) pair carries the candidate's hybrid
\* score (rounded to four places as the code rounds what it returns), not
\* another column of the row.
C1_ScoreIsHybridScore ==
    QueryRan =>
        \A i \in 1..Len(results) :
            results[i][2] = Round4(CandidateOf(results[i][1])[9], HybridUnit)

\* C2: the hybrid score a fetched row carries, and by which the rows were
\* filtered and ordered, is vector_weight * vector_similarity +
\* pn_boost_weight * pn_score with the weights as given, not normalised.
C2_HybridScoreIsWeightedSum ==
    QueryRan =>
        LET sum(r) == args.vector_weight * r[7] + args.pn_boost_weight * r[8]
        IN /\ \A i \in 1..Len(rows) :
                 /\ rows[i][9] = sum(rows[i])
                 /\ sum(rows[i]) >= ThresholdScore
           /\ \A i, j \in 1..Len(rows) : i < j => sum(rows[i]) >= sum(rows[j])

\* C2 witness: a call with weights that do not sum to one returned a row
\* with both similarities positive.
C2_Witness ==
    /\ QueryRan
    /\ args.vector_weight + args.pn_boost_weight # 10
    /\ \E i \in 1..Len(rows) : rows[i][7] > 0 /\ rows[i][8] > 0

\* C3: the output is sorted by hybrid score descending and entries of equal
\* hybrid score come in ascending order of catalog entry id.
C3_TiesByAscendingId ==
    QueryRan =>
        \A i, j \in 1..Len(results) :
            i < j =>
                LET hi == CandidateOf(results[i][1])[9]
                    hj == CandidateOf(results[j][1])[9]
                IN hi > hj \/ (hi = hj /\ results[i][1].id < results[j][1].id)

\* C4: no returned candidate has a hybrid score below similarity_threshold,
\* and a candidate whose score equals the threshold is returned unless
\* top_k rows were already returned.
C4_ThresholdInclusive ==
    QueryRan =>
        /\ \A i \in 1..Len(results) :
              CandidateOf(results[i][1])[9] >= ThresholdScore
        /\ \A c \in Candidates :
              c[9] = ThresholdScore =>
                  \/ \E i \in 1..Len(results) : results[i][1].id = c[1]
                  \/ Len(results) = args.top_k

\* C4 witness: a candidate scoring exactly the threshold was returned while
\* another candidate, scoring below it, was not.
C4_Witness ==
    /\ QueryRan
    /\ \E i \in 1..Len(results) : CandidateOf(results[i][1])[9] = ThresholdScore
    /\ \E c \in Candidates :
          /\ c[9] < ThresholdScore
          /\ \A i \in 1..Len(results) : results[i][1].id # c[1]

\* C5: when the embedding model fails or returns a malformed vector, the
\* call fails with EmbeddingUnavailable instead of returning a list.
C5_EmbeddingFailureRaises ==
    (pc = "done" /\ embed_status \in {"failed", "malformed"})
        => raised = "EmbeddingUnavailable"

\* C6: when the catalog query fails, the call ends in a failure the caller
\* can tell from "no candidate matched"; it does not return a list.
C6_QueryFailureRaises ==
    (pc = "done" /\ embed_status = "ok" /\ query_status = "db_error")
        => raised # "none"

\* C7: the call returns at most top_k entries.
C7_AtMostTopK == pc = "done" => Len(results) <= args.top_k

\* C7 witness: more candidates cleared the threshold than top_k, and top_k
\* of them were returned.
C7_Witness ==
    /\ QueryRan
    /\ Cardinality(Selected(catalog, vector, args)) > args.top_k
    /\ Len(results) = args.top_k

\* C8: with a delivery region on the line item, every returned entry's
\* origin is that region.
C8_RegionFilter ==
    (pc = "done" /\ fresh /\ Truthy(args.line_item.delivery_region)) =>
        \A i \in 1..Len(results) :
            catalog[results[i][1].id].origin = args.line_item.delivery_region

\* C8 witness: entries of the region were returned although an entry of
\* another origin scores higher than each of them.
C8_Witness ==
    /\ QueryRan
    /\ Truthy(args.line_item.delivery_region)
    /\ Len(results) > 0
    /\ \E sp \in Range(catalog) :
          /\ sp.origin # args.line_item.delivery_region
          /\ \A i \in 1..Len(results) :
                RankedRow(sp, vector, args)[9] > CandidateOf(results[i][1])[9]

\* C9: when the item's or the entry's part number is absent, the entry's
\* pn_score is 0 and its hybrid score is vector_weight * vector_similarity;
\* the entry is returned like any other entry of that score, and the
\* statement does not fail on it.
C9_AbsentPartNumber ==
    /\ QueryRan =>
          \A sp \in FromWhere(catalog, args.line_item.delivery_region) :
              (Absent(args.line_item.part_number) \/ Absent(sp.part_number)) =>
                  LET score == args.vector_weight * VectorSimilarity(sp, vector)
                  IN /\ \A i \in 1..Len(rows) :
                           rows[i][1] = sp.id =>
                               rows[i][8] = 0 /\ rows[i][9] = score
                     /\ score >= ThresholdScore =>
                           \/ \E i \in 1..Len(results) : results[i][1].id = sp.id
                           \/ Len(results) = args.top_k
    /\ (pc = "done" /\ query_status = "statement_error") => embed_status = "malformed"

\* C9 witness: an entry without part number was returned next to an entry
\* whose part number matched the item's, and so was an entry for an item
\* without part number.
C9_Witness ==
    /\ QueryRan
    /\ \E i, j \in 1..Len(rows) :
          /\ Absent(rows[i][3]) /\ rows[i][9] > 0
          /\ rows[j][8] > 0

\* C9 witness, item side: the item has no part number, the entry has one.
C9_WitnessItem ==
    /\ QueryRan
    /\ args.line_item.part_number = NULL
    /\ \E i \in 1..Len(rows) : ~Absent(rows[i][3]) /\ rows[i][9] > 0

\* C10: a fault-free call repeated with the same arguments on the same
\* catalog snapshot returns the same list.
C10_RepeatedCallSameOutput ==
    (QueryRan /\ embed_status = "ok" /\ prev # <<>>) => results = prev[1]

\* C11: a call whose line item has no description, missing or empty, ends
\* with an exception, and neither the embedding model nor the database was
\* asked anything.
C11_EmptyDescriptionRejected ==
    (pc = "done" /\ args.line_item.name \in {None, ""}) =>
        /\ raised # "none"
        /\ embed_status = "not_run"
        /\ query_status = "not_run"

\* The catalog entries the call's statement can score: same dimension as the
\* query vector.
Scorable(sp) == sp.embedding.dim = vector.dim

\* C12: when the database was reachable, a call on a catalog with an
\* unscorable entry still returns every scorable entry that passes the
\* region filter and the threshold, up to top_k of them.
C12_UnscorableEntrySkipped ==
    (pc = "done" /\ fresh /\ embed_status = "ok" /\ query_status # "db_error") =>
        \A sp \in FromWhere(catalog, args.line_item.delivery_region) :
            (Scorable(sp) /\ RankedRow(sp, vector, args)[9] >= ThresholdScore) =>
                \/ \E i \in 1..Len(results) : results[i][1].id = sp.id
                \/ Len(results) = args.top_k

\* C13: the vector similarity of every candidate of the statement lies
\* between 0 and 1.
C13_VectorSimilarityInUnitInterval ==
    QueryRan => \A c \in Candidates : 0 <= c[7] /\ c[7] <= Scale

\* A step of the match_suppliers call.
MatcherStep ==
    <<pc, args, vector, rows, results, raised, embed_status, query_status>>'
        # <<pc, args, vector, rows, results, raised, embed_status, query_status>>

\* C15: no step of a match_suppliers call changes the catalog or the
\* transaction status of the shared connection's session, however the call
\* ends.
C15_NoSharedStateChange ==
    [][MatcherStep => (catalog' = catalog /\ session' = session)]_vars

\* A call whose statement failed on a non-empty catalog has returned.
C15_Witness ==
    /\ pc = "done"
    /\ query_status = "statement_error"
    /\ Len(catalog) > 0
    /\ results = <<>>

\* C20: a candidate that passes the region filter and the threshold is left
\* out of the output only when top_k rows were returned and each of them has
\* a hybrid score at least as high; its vector similarity plays no part.
C20_FusionBeforeSelection ==
    QueryRan =>
        \A c \in Candidates :
            (c[9] >= ThresholdScore
                /\ \A i \in 1..Len(results) : results[i][1].id # c[1]) =>
                /\ Len(results) = args.top_k
                /\ \A i \in 1..Len(results) :
                       CandidateOf(results[i][1])[9] >= c[9]

\* A returned entry whose vector similarity is lower than that of a
\* candidate that was not returned.
C20_Witness ==
    /\ QueryRan
    /\ \E i \in 1..Len(results) :
           \E c \in Candidates :
               /\ \A j \in 1..Len(results) : results[j][1].id # c[1]
               /\ CandidateOf(results[i][1])[7] < c[7]

\* C14: over the bounded part numbers, the lexical similarity lies between
\* 0 and 1 and is the same whichever argument comes first.
C14_SymmetricInUnitInterval ==
    (scorer.forward # NullReal /\ scorer.backward # NullReal) =>
        /\ 0 <= scorer.forward /\ scorer.forward <= Scale
        /\ scorer.forward = scorer.backward

\* C16: whatever the interleaving of the calls, at most one connection was
\* ever stored for a DSN and none was opened for that DSN after it, every
\* call that returned got the connection stored for its DSN, and two calls
\* that returned for the same DSN hold the same connection.
C16_OneConnectionPerDsn ==
    /\ \A d \in DSNs : Cardinality({p \in stored : p[1] = d}) <= 1
    /\ \A p \in stored : \A q \in opened : q[1] = p[1] => q[2] <= p[2]
    /\ \A t \in Threads :
           threads[t].pc = "done" => <<threads[t].dsn, threads[t].ret>> \in stored
    /\ \A t1, t2 \in Threads :
           (threads[t1].pc = "done" /\ threads[t2].pc = "done"
               /\ threads[t1].dsn = threads[t2].dsn) =>
               threads[t1].ret = threads[t2].ret

\* Two threads have returned for the same DSN.
C16_Witness ==
    \E t1, t2 \in Threads :
        /\ t1 # t2
        /\ threads[t1].pc = "done" /\ threads[t2].pc = "done"
        /\ threads[t1].dsn = threads[t2].dsn
        /\ threads[t1].ret # 0

\* C17: over all ingest operations on one Message-ID, at most one returned
\* preprocessed content.
C17_ContentReturnedOnce == \A m \in MessageIds : delivered[m] <= 1

\* C18: a parse that ended in failure made one call and max_retries further
\* calls, all invalid, and then raised RuntimeError (strict) or returned the
\* empty default (not strict); a parse that returned data returned a
\* response that validates, after only invalid ones.
C18_RetriesAfterFirstFailure ==
    llm.pc = "done" =>
        IF llm.result \in {"RuntimeError", "empty_default"}
        THEN /\ llm.calls = llm.max_retries + 1
             /\ Len(llm.log) = llm.calls
             /\ llm.result = IF llm.strict THEN "RuntimeError" ELSE "empty_default"
        ELSE /\ llm.result = "data"
             /\ AttemptOutcome(llm.data) = "valid"
             /\ Len(llm.log) = llm.calls - 1
             /\ llm.calls <= llm.max_retries + 1

\* C19: get_parser ends without raising, with a SEWPBidParser when the
\* source type is 'SEWP' in any case and an LLMBidParser otherwise.
C19_AlwaysReturnsParser ==
    factory.pc = "done" =>
        /\ factory.raised = "none"
        /\ factory.result =
               IF factory.source_type # NULL /\ UpperStr(factory.source_type) = SEWP
               THEN "SEWPBidParser"
               ELSE "LLMBidParser"

\* C21: the pn_score of every candidate of the statement is the value of
\* _part_number_similarity for the line item's part number and the
\* candidate's part number.
C21_LexicalScoreIsSequenceRatio ==
    QueryRan =>
        \A c \in Candidates :
            c[8] = part_number_similarity(args.line_item.part_number, c[3])

\* C22: in every returned product, supplier_name is the supplier_name column
\* of the row it was decoded from and email is its email column, as id, name
\* and part_number are the columns of those names.
C22_FieldsCarrySameNamedColumns ==
    QueryRan =>
        \A i \in 1..Len(results) :
            LET product == results[i][1]
                row == CandidateOf(product)
            IN /\ product.id = row[1]
               /\ product.name = row[2]
               /\ product.part_number = row[3]
               /\ product.supplier_name = row[5]
               /\ product.email = row[6]

\* The regular lines of a text: well formed and not a delivery-region line.
RegularLines(lines) ==
    SelectSeq(lines, LAMBDA l : WellFormed(l) /\ ~IsDeliveryRegion(l))

\* C23: for a text of well-formed lines, no returned item has a
\* delivery-region name, and the returned items are the text's regular
\* lines, in input order, with their name, quantity and part number.
C23_RegionLineNeverAnItem ==
    (sewp.pc = "done" /\ \A k \in 1..Len(sewp.lines) : WellFormed(sewp.lines[k])) =>
        LET regular == RegularLines(sewp.lines)
        IN /\ Len(sewp.items) = Len(regular)
           /\ \A k \in 1..Len(sewp.items) :
                  /\ LowerName(sewp.items[k].name) \notin
                         {"services delivery region",
                          "selected region for services delivery"}
                  /\ k <= Len(regular) =>
                         /\ sewp.items[k].name = FromEnd(Parts(regular[k]), 2)
                         /\ sewp.items[k].quantity = IntOf(FromEnd(Parts(regular[k]), 1))
                         /\ sewp.items[k].part_number = FromEnd(Parts(regular[k]), 3)

\* C24: the Message-ID of every operation that returned content is in the
\* message log (so has_seen finds it), and a Message-ID is in the log only
\* when some operation returned content for it.
C24_ContentImpliesLogged ==
    /\ \A w \in Ingests :
           (ingestors[w].pc = "done" /\ ingestors[w].ret = "content") =>
               ingestors[w].message_id \in rfq_logs
    /\ \A m \in rfq_logs : delivered[m] >= 1

====
